---- MODULE Spec2Model ----
(***************************************************************************)
(* A model of src/bot.py (AeroBot): the TTL result cache and its lock, the *)
(* request handlers that fetch through it, the airport directory and the   *)
(* METAR decoder.                                                          *)
(*                                                                         *)
(* Python strings are sequences of one-character strings.  An              *)
(* Optional[str] is None == <<>> or Some(s) == <<s>>.                      *)
(***************************************************************************)
EXTENDS Integers, Sequences, FiniteSets, TLC

VARIABLES
    now,        \* time.time(), in whole seconds
    ticks,      \* how many times the clock has advanced
    CACHE,      \* dict key -> <<ts, text>>
    locked,     \* CACHE_LOCK._locked
    waiters,    \* CACHE_LOCK._waiters, in FIFO order
    woken,      \* waiters whose future has a result set by release()
    pc,         \* where each request handler stands
    op,         \* the request each handler serves: [kind, icao]
    cached_res, \* each handler's local `cached_res`
    val,        \* each handler's value computed from its own fetch
    ret,        \* what each handler's last call returned
    lastSet,    \* history: per key, the (ts, text) of the latest cache_set
    AIRPORTS,   \* the list of airport records, in file order
    IATA_MAP,   \* dict IATA -> ICAO
    lastLoad,   \* history: what the latest load_airports found
    call        \* the latest directory or decoder call: its arguments and result

cacheVars == <<now, ticks, CACHE, locked, waiters, woken, pc, op, cached_res,
               val, ret, lastSet>>
dirVars == <<AIRPORTS, IATA_MAP, lastLoad>>
vars == <<cacheVars, dirVars, call>>

----------------------------------------------------------------------------
(* Strings                                                                 *)

None == <<>>
Some(s) == <<s>>

LowerCase == <<"a","b","c","d","e","f","g","h","i","j","k","l","m",
               "n","o","p","q","r","s","t","u","v","w","x","y","z">>
UpperCase == <<"A","B","C","D","E","F","G","H","I","J","K","L","M",
               "N","O","P","Q","R","S","T","U","V","W","X","Y","Z">>
Digits == {"0","1","2","3","4","5","6","7","8","9"}
Whitespace == {" ", "\n", "\t"}

IsDigit(c) == c \in Digits
IsSpace(c) == c \in Whitespace

\* str.upper() and str.lower(), character by character
upper_char(c) ==
    IF \E i \in 1..26 : LowerCase[i] = c
    THEN UpperCase[CHOOSE i \in 1..26 : LowerCase[i] = c]
    ELSE c
lower_char(c) ==
    IF \E i \in 1..26 : UpperCase[i] = c
    THEN LowerCase[CHOOSE i \in 1..26 : UpperCase[i] = c]
    ELSE c
upper(s) == [i \in 1..Len(s) |-> upper_char(s[i])]
lower(s) == [i \in 1..Len(s) |-> lower_char(s[i])]

\* s[a-1:b-1] of Python, 1-based and inclusive here; empty when a > b
Slice(s, a, b) == IF a > b THEN <<>> ELSE SubSeq(s, a, b)

\* str.strip(): drop leading and trailing whitespace
strip(s) ==
    LET idx == {i \in 1..Len(s) : ~IsSpace(s[i])}
    IN  IF idx = {} THEN <<>>
        ELSE LET lo == CHOOSE i \in idx : \A j \in idx : i <= j
                 hi == CHOOSE i \in idx : \A j \in idx : j <= i
             IN  SubSeq(s, lo, hi)

\* s[i:].startswith(sub), 1-based
StartsAt(s, sub, i) ==
    /\ i >= 1
    /\ i + Len(sub) - 1 <= Len(s)
    /\ \A j \in 1..Len(sub) : s[i + j - 1] = sub[j]

\* `sub in s`
Contains(s, sub) == \E i \in 1..(Len(s) + 1) : StartsAt(s, sub, i)

\* str.find(sub, from): the least index >= from where sub starts, 0 if none
Find(s, sub, from) ==
    LET hits == {i \in from..(Len(s) + 1) : StartsAt(s, sub, i)}
    IN  IF hits = {} THEN 0 ELSE CHOOSE i \in hits : \A j \in hits : i <= j

\* str.split(sep) for a non-empty separator: the list of pieces
RECURSIVE SplitFrom(_, _, _)
SplitFrom(s, sep, from) ==
    LET at == Find(s, sep, from)
    IN  IF at = 0 THEN << Slice(s, from, Len(s)) >>
        ELSE << Slice(s, from, at - 1) >> \o SplitFrom(s, sep, at + Len(sep))
split(s, sep) == SplitFrom(s, sep, 1)

\* str.splitlines() (line boundary "\n"): no trailing empty line, [] for ""
splitlines(s) ==
    IF s = <<>> THEN <<>>
    ELSE LET parts == split(s, <<"\n">>)
         IN  IF parts[Len(parts)] = <<>>
             THEN SubSeq(parts, 1, Len(parts) - 1) ELSE parts

\* sep.join(list)
RECURSIVE join(_, _)
join(sep, list) ==
    IF list = <<>> THEN <<>>
    ELSE IF Len(list) = 1 THEN list[1]
    ELSE list[1] \o sep \o join(sep, Tail(list))

----------------------------------------------------------------------------
(* The cache                                                               *)

CACHE_TTL == 300

\* A clock advance is by one of these amounts; 1 + (CACHE_TTL - 1) lands
\* exactly on the expiry boundary.
MaxTicks == 2
Deltas == {1, CACHE_TTL - 1}

\* cache_get with `<=` for `<`: an entry aged exactly CACHE_TTL stays visible
cache_get_body_le(cache, t, key) ==
    IF key \in DOMAIN cache
    THEN IF t - cache[key][1] <= CACHE_TTL
         THEN [ret |-> Some(cache[key][2]), cache |-> cache]
         ELSE [ret |-> None,
               cache |-> [k \in (DOMAIN cache) \ {key} |-> cache[k]]]
    ELSE [ret |-> None, cache |-> cache]

\* The body of cache_get under the lock: the value returned and the map left.
cache_get_body(cache, t, key) ==
    IF key \in DOMAIN cache
    THEN LET ts == cache[key][1]
             v  == cache[key][2]
         IN  IF t - ts < CACHE_TTL
             THEN [ret |-> Some(v), cache |-> cache]
             ELSE [ret |-> None,
                   cache |-> [k \in (DOMAIN cache) \ {key} |-> cache[k]]]
    ELSE [ret |-> None, cache |-> cache]

\* cache_set that keeps the timestamp of an entry it overwrites
cache_set_body_keep_ts(cache, t, key, value) ==
    [k \in (DOMAIN cache) \cup {key} |->
        IF k = key
        THEN <<IF key \in DOMAIN cache THEN cache[key][1] ELSE t, value>>
        ELSE cache[k]]

\* The body of cache_set under the lock.
cache_set_body(cache, t, key, value) ==
    [k \in (DOMAIN cache) \cup {key} |->
        IF k = key THEN <<t, value>> ELSE cache[k]]

----------------------------------------------------------------------------
(* The request handlers: get_metar_and_taf and get_notams                  *)

Handlers == {"h1", "h2"}
Kinds == {"metar_taf", "notam"}
UAAA == <<"U","A","A","A">>
Codes == {UAAA}

SEP == <<"|","|","M","E","T","A","R","_","T","A","F","|","|">>
TAF == <<"T","A","F">>
NL == <<"\n">>

\* f"{icao}_metar_taf" and f"{icao}_notam"
KeyOf(kind, icao) ==
    IF kind = "metar_taf"
    THEN icao \o <<"_","m","e","t","a","r","_","t","a","f">>
    ELSE icao \o <<"_","n","o","t","a","m">>
Keys == {KeyOf(k, c) : k \in Kinds, c \in Codes}

\* Python truthiness of an Optional[str]
Truthy(o) == o # None /\ o[1] # <<>>
\* `o or ""`
OrEmpty(o) == IF Truthy(o) THEN o[1] ELSE <<>>

\* What the upstream may answer to fetch_text: a METAR line, a METAR and a
\* TAF separated by a blank line, an empty body.  Failure is a raised
\* exception (FetchFails below).
MetarResponses ==
    { <<"M","1">>,
      <<"M","2","\n","\n","T","A","F"," ","2","\n">> }

\* The loop over `parts` in get_metar_and_taf: <<raw_metar, raw_taf>>
RECURSIVE SplitParts(_, _, _, _)
SplitParts(parts, i, raw_metar, raw_taf) ==
    IF i > Len(parts) THEN <<raw_metar, raw_taf>>
    ELSE LET p == parts[i]
         IN  IF StartsAt(strip(p), TAF, 1) \/ Contains(p, TAF)
             THEN SplitParts(parts, i + 1, raw_metar, Some(strip(p)))
             ELSE SplitParts(parts, i + 1,
                     IF Truthy(raw_metar)
                     THEN Some(raw_metar[1] \o NL \o strip(p))
                     ELSE Some(strip(p)),
                     raw_taf)

\* From the fetched text to <<raw_metar, raw_taf>>
SplitMetarTaf(text) ==
    LET raw == strip(text)
    IN  IF raw = <<>> THEN <<None, None>>
        ELSE IF Contains(raw, TAF) /\ Contains(raw, NL)
             THEN SplitParts(split(raw, NL \o NL), 1, None, None)
             ELSE <<Some(raw), None>>

\* The value get_metar_and_taf stores: (raw_metar or "") + SEP + (raw_taf or "")
JoinMetarTaf(pair) == OrEmpty(pair[1]) \o SEP \o OrEmpty(pair[2])

\* What a cache hit makes of the stored text: Some(pair), or None when the
\* split does not give exactly two pieces (the unpacking raises, `pass`).
ReadMetarTaf(text) ==
    LET parts == split(text, SEP)
    IN  IF Len(parts) = 2
        THEN Some(<< IF parts[1] # <<>> THEN Some(parts[1]) ELSE None,
                     IF parts[2] # <<>> THEN Some(parts[2]) ELSE None >>)
        ELSE None

\* The NOTAM messages.  The literal texts of the source are abbreviated:
\* "OK " for the no-active-NOTAM text, "NOTAM " for the list header and
\* "NA " for the unavailable marker; each carries icao.upper().
NotamSlice == 6
NotamTextMax == 350
NotamResponses == { <<>>, << <<"r","w","y","\n","x">> >> }

replace_nl(t) == [i \in 1..Len(t) |-> IF t[i] = "\n" THEN " " ELSE t[i]]
NotamLine(t) ==
    LET u == strip(replace_nl(t))
    IN  <<"*"," ">> \o Slice(u, 1, IF Len(u) < NotamTextMax THEN Len(u) ELSE NotamTextMax)
        \o <<".",".",".">>
NotamNone(icao) == <<"O","K"," ">> \o upper(icao)
NotamUnavailable(icao) == <<"N","A"," ">> \o upper(icao)
NotamMsg(icao, notams) ==
    IF notams = <<>> THEN NotamNone(icao)
    ELSE LET shown == SubSeq(notams, 1,
                        IF Len(notams) < NotamSlice THEN Len(notams) ELSE NotamSlice)
         IN  join(NL \o NL,
                  << <<"N","O","T","A","M"," ">> \o upper(icao) >>
                  \o [i \in 1..Len(shown) |-> NotamLine(shown[i])])

----------------------------------------------------------------------------
(* The airport directory                                                   *)

\* A row of airports.csv as csv.DictReader gives it (the loader's fallback
\* branch): every field a string, "" when the column is empty.  Coordinates
\* are whole degrees here.
Ala == <<"A","l","a">>
Row(ident, name, iata, icao, lat, lon) ==
    [ident |-> ident, name |-> name, iata |-> iata, icao |-> icao,
     lat |-> lat, lon |-> lon]
RowPool ==
    { Row(UAAA, Ala, <<"a","l","a">>, UAAA, Some(0), Some(0)),
      Row(<<"U","A","C","C">>, <<"N","q","z">>, <<"N","Q","Z">>,
          <<"U","A","C","C">>, Some(0), Some(2)),
      Row(<<"L","L","0","1">>, <<"A","l"," ","Q">>, <<>>, <<>>, Some(2), Some(0)),
      Row(<<"U","A","I","I">>, <<"C","i","t">>, <<"C","I","T">>,
          <<"U","A","I","I">>, None, Some(1)) }

\* The files load_airports may find: None when airports.csv does not exist,
\* else its rows
MaxRows == 2
RECURSIVE RowSeqs(_)
RowSeqs(n) ==
    IF n = 0 THEN { <<>> }
    ELSE RowSeqs(n - 1) \cup
         {Append(f, r) : f \in {g \in RowSeqs(n - 1) : Len(g) = n - 1}, r \in RowPool}
Files == {None} \cup {Some(f) : f \in RowSeqs(MaxRows)}

\* The rows kept: those with both coordinates, codes uppercased
RECURSIVE LoadRows(_)
LoadRows(rows) ==
    IF rows = <<>> THEN <<>>
    ELSE LET r == Head(rows)
         IN  IF r.lat = None \/ r.lon = None
             THEN LoadRows(Tail(rows))
             ELSE << [ident |-> r.ident, name |-> r.name, iata |-> upper(r.iata),
                      icao |-> upper(r.icao), lat |-> r.lat[1], lon |-> r.lon[1]] >>
                  \o LoadRows(Tail(rows))

\* {r["iata"]: r["icao"] for r in AIRPORTS if r.get("iata") and r.get("icao")}:
\* a later row with the same IATA code overwrites an earlier one
BuildIataMap(airports) ==
    LET idx == {i \in 1..Len(airports) :
                   airports[i].iata # <<>> /\ airports[i].icao # <<>>}
    IN  [k \in {airports[i].iata : i \in idx} |->
            airports[CHOOSE i \in idx :
                        /\ airports[i].iata = k
                        /\ \A j \in idx : airports[j].iata = k => j <= i].icao]

\* load_airports: the new <<AIRPORTS, IATA_MAP>>.  With no file it empties
\* AIRPORTS and returns before IATA_MAP is rebuilt.
load_airports(file, airports, iatamap) ==
    IF file = None THEN [airports |-> <<>>, iatamap |-> iatamap]
    ELSE LET rows == LoadRows(file[1])
         IN  [airports |-> rows, iatamap |-> BuildIataMap(rows)]

\* normalize_code_input without the upper()
normalize_code_input_no_upper(q0, iatamap) ==
    LET q == strip(q0)
    IN  IF Len(q) = 3 /\ q \in DOMAIN iatamap /\ iatamap[q] # <<>>
        THEN iatamap[q] ELSE q

\* normalize_code_input
normalize_code_input(q0, iatamap) ==
    LET q == upper(strip(q0))
    IN  IF Len(q) = 3 /\ q \in DOMAIN iatamap /\ iatamap[q] # <<>>
        THEN iatamap[q] ELSE q

\* The test of search_airports on one record
Matches(q, a) ==
    \/ Contains(lower(a.name), q)
    \/ Contains(lower(a.icao), q)
    \/ Contains(lower(a.iata), q)
    \/ Contains(lower(a.ident), q)

\* The loop of search_airports: append, then stop once len(res) >= max_results
RECURSIVE SearchLoop(_, _, _, _, _)
SearchLoop(airports, q, max_results, i, res) ==
    IF i > Len(airports) THEN res
    ELSE IF Matches(q, airports[i])
         THEN LET res2 == Append(res, airports[i])
              IN  IF Len(res2) >= max_results THEN res2
                  ELSE SearchLoop(airports, q, max_results, i + 1, res2)
         ELSE SearchLoop(airports, q, max_results, i + 1, res)

\* search_airports
search_airports(airports, query, max_results) ==
    LET q == lower(strip(query))
    IN  IF q = <<>> THEN <<>> ELSE SearchLoop(airports, q, max_results, 1, <<>>)

\* haversine_km, abstracted: the model keeps only an order of distances, the
\* squared planar distance between whole-degree points.  It is symmetric and
\* zero exactly between equal points, as the great-circle distance is here.
haversine_km(lat1, lon1, lat2, lon2) ==
    (lat2 - lat1) * (lat2 - lat1) + (lon2 - lon1) * (lon2 - lon1)

\* list.sort(key=lambda x: x[0]): stable, ascending by distance
RECURSIVE InsertByDist(_, _)
InsertByDist(sorted, x) ==
    IF sorted = <<>> THEN <<x>>
    ELSE IF x.d < Head(sorted).d THEN <<x>> \o sorted
    ELSE <<Head(sorted)>> \o InsertByDist(Tail(sorted), x)
RECURSIVE SortByDist(_)
SortByDist(out) ==
    IF out = <<>> THEN <<>>
    ELSE InsertByDist(SortByDist(SubSeq(out, 1, Len(out) - 1)), out[Len(out)])

\* The loop of find_nearby: (d, a) for every record within limit_km, in file
\* order; idx is the record's place in AIRPORTS (the identity of `a`)
InRadius(airports, lat, lon, limit_km) ==
    LET all == [i \in 1..Len(airports) |->
                  [d |-> haversine_km(lat, lon, airports[i].lat, airports[i].lon),
                   a |-> airports[i], idx |-> i]]
    IN  SelectSeq(all, LAMBDA x : x.d <= limit_km)

\* out[:max_results]
Take(seq, n) == SubSeq(seq, 1, IF n < Len(seq) THEN n ELSE Len(seq))

\* find_nearby that truncates before it sorts
find_nearby_cut_first(airports, lat, lon, limit_km, max_results) ==
    IF airports = <<>> THEN <<>>
    ELSE SortByDist(Take(InRadius(airports, lat, lon, limit_km), max_results))

\* find_nearby
find_nearby(airports, lat, lon, limit_km, max_results) ==
    IF airports = <<>> THEN <<>>
    ELSE Take(SortByDist(InRadius(airports, lat, lon, limit_km)), max_results)

\* The arguments the callers are given
MaxResults == 2
CodeInputs ==
    { <<"A","L","A">>, <<"a","l","a">>, <<" ","a","L","a","\n">>, UAAA,
      <<"u","a","a","a">>, <<"C","I","T">>, <<"n","q">>, <<>> }
Queries ==
    { <<>>, <<" ">>, <<"a","l">>, <<"A","L">>, <<"U","A">>, <<"q"," ">>, <<"0","1">>,
      <<"z","z">> }
Lats == {0, 1}
Lons == {0}
Radii == {0, 1, 4}

NoCall == [f |-> "none", args |-> <<>>, out |-> <<>>]

DirInit ==
    /\ AIRPORTS = <<>>
    /\ IATA_MAP = <<>>
    /\ lastLoad = "none"
    /\ call = NoCall

\* load_airports() runs
Load ==
    /\ \E file \in Files :
         LET r == load_airports(file, AIRPORTS, IATA_MAP)
         IN  /\ AIRPORTS' = r.airports
             /\ IATA_MAP' = r.iatamap
             /\ lastLoad' = IF file = None THEN "absent"
                            ELSE IF file[1] = <<>> THEN "empty" ELSE "data"
    /\ call' = NoCall
    /\ UNCHANGED cacheVars

\* normalize_code_input(q) is called
Resolve ==
    /\ \E q \in CodeInputs :
         call' = [f |-> "resolve", args |-> <<q>>,
                  out |-> normalize_code_input(q, IATA_MAP)]
    /\ UNCHANGED <<cacheVars, dirVars>>

\* search_airports(query, max_results) is called
Search ==
    /\ \E query \in Queries, n \in 0..MaxResults :
         call' = [f |-> "search", args |-> <<query, n>>,
                  out |-> search_airports(AIRPORTS, query, n)]
    /\ UNCHANGED <<cacheVars, dirVars>>

\* find_nearby(lat, lon, limit_km, max_results) is called
Nearby ==
    /\ \E lat \in Lats, lon \in Lons, km \in Radii, n \in 0..MaxResults :
         call' = [f |-> "nearby", args |-> <<lat, lon, km, n>>,
                  out |-> find_nearby(AIRPORTS, lat, lon, km, n)]
    /\ UNCHANGED <<cacheVars, dirVars>>

DirNext == Load \/ Resolve \/ Search \/ Nearby

----------------------------------------------------------------------------
(* The METAR decoder: parse_metar_human                                    *)

\* \w of the patterns, for the characters that occur
IsWord(c) ==
    \/ IsDigit(c) \/ c = "_"
    \/ \E i \in 1..26 : c = LowerCase[i] \/ c = UpperCase[i]
AllDigits(s, a, b) == b <= Len(s) /\ \A i \in a..b : IsDigit(s[i])

\* re.search: the least of the starts at which the pattern matches, 0 for
\* no match
FirstOf(hits) ==
    IF hits = {} THEN 0 ELSE CHOOSE i \in hits : \A j \in hits : i <= j

\* r'\b(\d{6}Z)\b' at i
TimeAt(s, i) ==
    /\ i = 1 \/ ~IsWord(s[i - 1])
    /\ AllDigits(s, i, i + 5)
    /\ i + 6 <= Len(s) /\ s[i + 6] = "Z"
    /\ i + 6 = Len(s) \/ ~IsWord(s[i + 7])

\* METAR_WIND_RE = r'(\d{3}|VRB)(\d{2,3})(G\d{2,3})?KT' at i, with a speed of
\* sl digits and a gust group of gl characters (0: no gust group)
WindShapeAt(s, i, sl, gl) ==
    /\ AllDigits(s, i, i + 2) \/ StartsAt(s, <<"V","R","B">>, i)
    /\ AllDigits(s, i + 3, i + 2 + sl)
    /\ gl = 0 \/ (/\ i + 3 + sl <= Len(s) /\ s[i + 3 + sl] = "G"
                  /\ AllDigits(s, i + 4 + sl, i + 2 + sl + gl))
    /\ StartsAt(s, <<"K","T">>, i + 3 + sl + gl)
\* The shapes in the order the greedy quantifiers try them
WindShapes == << <<3, 4>>, <<3, 3>>, <<3, 0>>, <<2, 4>>, <<2, 3>>, <<2, 0>> >>
WindAt(s, i) == \E n \in 1..6 : WindShapeAt(s, i, WindShapes[n][1], WindShapes[n][2])

\* METAR_VIS_RE = r' (\d{1,2}SM|\d{4}) ' at i: the length of group 1, 0 for
\* no match; the alternatives in the order they are tried
VisLenAt(s, i) ==
    IF i > Len(s) \/ s[i] # " " THEN 0
    ELSE IF AllDigits(s, i + 1, i + 2) /\ StartsAt(s, <<"S","M"," ">>, i + 3) THEN 4
    ELSE IF AllDigits(s, i + 1, i + 1) /\ StartsAt(s, <<"S","M"," ">>, i + 2) THEN 3
    ELSE IF AllDigits(s, i + 1, i + 4) /\ StartsAt(s, <<" ">>, i + 5) THEN 4
    ELSE 0
VisAt(s, i) == VisLenAt(s, i) > 0

\* r'M?\d{2}' at i: its length, 0 for no match
TempPartLen(s, i) ==
    IF i <= Len(s) /\ s[i] = "M" /\ AllDigits(s, i + 1, i + 2) THEN 3
    ELSE IF AllDigits(s, i, i + 1) THEN 2 ELSE 0
\* METAR_TEMP_RE = r' (M?\d{2})/(M?\d{2})' at i
TempAt(s, i) ==
    /\ s[i] = " "
    /\ TempPartLen(s, i + 1) > 0
    /\ LET j == i + 1 + TempPartLen(s, i + 1)
       IN  j <= Len(s) /\ s[j] = "/" /\ TempPartLen(s, j + 1) > 0

\* METAR_QNH_RE = r' Q(\d{4})' at i
QnhAt(s, i) == StartsAt(s, <<" ","Q">>, i) /\ AllDigits(s, i + 2, i + 5)

\* METAR_CLOUD_RE = r' (FEW|SCT|BKN|OVC)\d{3}' at i
Coverages == { <<"F","E","W">>, <<"S","C","T">>, <<"B","K","N">>, <<"O","V","C">> }
CloudAt(s, i) ==
    /\ s[i] = " "
    /\ \E c \in Coverages : StartsAt(s, c, i + 1)
    /\ AllDigits(s, i + 4, i + 6)

\* METAR_CLOUD_RE.findall(first): with one group in the pattern, findall
\* gives the text of that group for each match, left to right
RECURSIVE CloudFindall(_, _)
CloudFindall(s, from) ==
    IF from > Len(s) THEN <<>>
    ELSE IF CloudAt(s, from)
         THEN << SubSeq(s, from + 1, from + 3) >> \o CloudFindall(s, from + 7)
         ELSE CloudFindall(s, from + 1)

\* int(speed), then its decimal text
DigitSeq == <<"0","1","2","3","4","5","6","7","8","9">>
DigitVal(c) == (CHOOSE i \in 1..10 : DigitSeq[i] = c) - 1
RECURSIVE IntOf(_)
IntOf(ds) ==
    IF ds = <<>> THEN 0
    ELSE 10 * IntOf(SubSeq(ds, 1, Len(ds) - 1)) + DigitVal(ds[Len(ds)])
RECURSIVE StrOf(_)
StrOf(n) ==
    IF n < 10 THEN << DigitSeq[n + 1] >>
    ELSE StrOf(n \div 10) \o << DigitSeq[(n % 10) + 1] >>

\* str.replace('M', '-')
replace_M(t) == [i \in 1..Len(t) |-> IF t[i] = "M" THEN "-" ELSE t[i]]

\* f"{dir_}° {int(speed)} kt" + (f" gust {gust} kt" if gust else "");
\* the degree sign is written "*"
WindText(s, i) ==
    LET n == CHOOSE n \in 1..6 :
                /\ WindShapeAt(s, i, WindShapes[n][1], WindShapes[n][2])
                /\ \A m \in 1..(n - 1) :
                      ~WindShapeAt(s, i, WindShapes[m][1], WindShapes[m][2])
        sl == WindShapes[n][1]
        gl == WindShapes[n][2]
    IN  SubSeq(s, i, i + 2) \o <<"*"," ">> \o StrOf(IntOf(SubSeq(s, i + 3, i + 2 + sl)))
        \o <<" ","k","t">>
        \o IF gl = 0 THEN <<>>
           ELSE <<" ","g","u","s","t"," ">>
                \o SubSeq(s, i + 4 + sl, i + 2 + sl + gl) \o <<" ","k","t">>

\* The dict parse_metar_human starts from; `raised` tells whether an
\* exception left the function
MetarDefaults ==
    [time |-> None, wind |-> None, visibility |-> None, temp |-> None,
     dewpoint |-> None, qnh |-> None, clouds |-> None, raised |-> FALSE]

\* The fields decoded from the first line
MetarFields(first) ==
    LET padded == first \o <<" ">>
        ti == FirstOf({i \in 1..Len(first) : TimeAt(first, i)})
        wi == FirstOf({i \in 1..Len(first) : WindAt(first, i)})
        vi == FirstOf({i \in 1..Len(padded) : VisAt(padded, i)})
        vis == SubSeq(padded, vi + 1, vi + VisLenAt(padded, vi))
        pi == FirstOf({i \in 1..Len(first) : TempAt(first, i)})
        tl == TempPartLen(first, pi + 1)
        dl == TempPartLen(first, pi + 2 + tl)
        qi == FirstOf({i \in 1..Len(first) : QnhAt(first, i)})
        clouds == CloudFindall(first, 1)
    IN  [time |-> IF ti = 0 THEN None ELSE Some(SubSeq(first, ti, ti + 6)),
         wind |-> IF wi = 0 THEN None ELSE Some(WindText(first, wi)),
         visibility |->
            IF vi = 0 THEN None
            ELSE IF vis = <<"9","9","9","9">> \/ vis = <<"1","0","0","0","0">>
                 THEN Some(<<"1","0","+"," ","k","m">>) ELSE Some(vis),
         temp |-> IF pi = 0 THEN None
                  ELSE Some(replace_M(SubSeq(first, pi + 1, pi + tl))),
         dewpoint |-> IF pi = 0 THEN None
                      ELSE Some(replace_M(SubSeq(first, pi + 2 + tl, pi + 1 + tl + dl))),
         qnh |-> IF qi = 0 THEN None
                 ELSE Some(SubSeq(first, qi + 2, qi + 5) \o <<" ","h","P","a">>),
         clouds |-> IF clouds = <<>> THEN None ELSE Some(join(<<","," ">>, clouds)),
         raised |-> FALSE]

\* parse_metar_human with no try/except around the body
parse_metar_human_no_try(raw) ==
    IF splitlines(raw) = <<>> THEN [MetarDefaults EXCEPT !.raised = TRUE]
    ELSE MetarFields(strip(splitlines(raw)[1]))

\* parse_metar_human: raw.splitlines()[0] raises IndexError for "", which
\* the except clause swallows, and the defaults are returned
parse_metar_human(raw) ==
    IF splitlines(raw) = <<>> THEN MetarDefaults
    ELSE MetarFields(strip(splitlines(raw)[1]))

\* The raw texts decoded: lines of up to MaxTokens groups, the two lines of
\* the documentation, a line reporting the visibility as 10000, a text of no
\* group, the NOTAM unavailable marker, ""
MaxTokens == 2
TokenPool ==
    { UAAA, <<"0","1","0","6","0","0","Z">>, <<"1","8","0","0","5","K","T">>,
      <<"V","R","B","0","2","G","1","5","K","T">>, <<"9","9","9","9">>,
      <<"3","S","M">>, <<"F","E","W","0","2","0">>, <<"B","K","N","1","0","0">>,
      <<"2","2","/","1","4">>, <<"M","0","5","/","M","1","0">>,
      <<"Q","1","0","1","5">>, <<"Q","1","0">>, <<"\n","T","A","F">> }
RECURSIVE TokenLines(_)
TokenLines(n) ==
    IF n = 0 THEN { <<>> }
    ELSE TokenLines(n - 1) \cup
         {(IF l = <<>> THEN t ELSE l \o <<" ">> \o t) :
             l \in TokenLines(n - 1), t \in TokenPool}
Example1 ==
    join(<<" ">>, << UAAA, <<"0","1","0","6","0","0","Z">>,
                     <<"1","8","0","0","5","K","T">>, <<"9","9","9","9">>,
                     <<"F","E","W","0","2","0">>, <<"2","2","/","1","4">>,
                     <<"Q","1","0","1","5">> >>)
Example2 ==
    join(<<" ">>, << UAAA, <<"0","1","0","6","0","0","Z">>,
                     <<"V","R","B","0","2","K","T">>,
                     <<"M","0","5","/","M","1","0">>, <<"Q","0","9","9","8">> >>)
Example3 ==
    join(<<" ">>, << UAAA, <<"0","1","0","6","0","0","Z">>,
                     <<"1","0","0","0","0">>, <<"Q","1","0","1","5">> >>)
Garbage == <<"g","a","r","b","a","g","e"," ","t","e","x","t">>
RawInputs ==
    TokenLines(MaxTokens)
    \cup {Example1, Example2, Example3, Garbage, NotamUnavailable(UAAA)}

----------------------------------------------------------------------------
(* parse_taf_wind: the wind of each period of a TAF                        *)

\* r'(\d{4}/\d{4})' at i
WindowAt(s, i) ==
    /\ AllDigits(s, i, i + 3)
    /\ StartsAt(s, <<"/">>, i + 4)
    /\ AllDigits(s, i + 5, i + 8)

\* r'(\d{3}|VRB)\d{2}(G\d{2})?KT' at d, with a gust group of gl characters
TafCoreAt(s, d, gl) ==
    /\ AllDigits(s, d, d + 2) \/ StartsAt(s, <<"V","R","B">>, d)
    /\ AllDigits(s, d + 3, d + 4)
    /\ gl = 0 \/ (StartsAt(s, <<"G">>, d + 5) /\ AllDigits(s, d + 6, d + 7))
    /\ StartsAt(s, <<"K","T">>, d + 5 + gl)

\* r'(\d{3}V?\d{3})?' at i, taking pl characters
TafPrefixAt(s, i, pl) ==
    \/ pl = 0
    \/ pl = 7 /\ AllDigits(s, i, i + 2) /\ StartsAt(s, <<"V">>, i + 3)
              /\ AllDigits(s, i + 4, i + 6)
    \/ pl = 6 /\ AllDigits(s, i, i + 5)

\* r'(\d{3}V?\d{3})?(\d{3}|VRB)\d{2}(G\d{2})?KT' at i; the shapes (prefix
\* length, gust length) in the order the greedy quantifiers try them
TafWindShapes == << <<7, 3>>, <<7, 0>>, <<6, 3>>, <<6, 0>>, <<0, 3>>, <<0, 0>> >>
TafWindShapeAt(s, i, n) ==
    /\ TafPrefixAt(s, i, TafWindShapes[n][1])
    /\ TafCoreAt(s, i + TafWindShapes[n][1], TafWindShapes[n][2])
TafWindAt(s, i) == \E n \in 1..6 : TafWindShapeAt(s, i, n)

\* re.search of that pattern in tail: m.group(0), None for no match
TafWindSearch(tail) ==
    LET i == FirstOf({j \in 1..Len(tail) : TafWindAt(tail, j)})
        n == CHOOSE n \in 1..6 :
                /\ TafWindShapeAt(tail, i, n)
                /\ \A m \in 1..(n - 1) : ~TafWindShapeAt(tail, i, m)
    IN  IF i = 0 THEN None
        ELSE Some(SubSeq(tail, i,
                i + TafWindShapes[n][1] + TafWindShapes[n][2] + 6))

\* taf[span_end:span_end+120]
TafTail == 120
Least(a, b) == IF a < b THEN a ELSE b

\* The first loop: re.finditer over the windows, left to right and not
\* overlapping; a pair is appended when the tail holds a wind
RECURSIVE WindowPairs(_, _)
WindowPairs(taf, from) ==
    LET p == FirstOf({i \in from..Len(taf) : WindowAt(taf, i)})
        tail == Slice(taf, p + 9, Least(Len(taf), p + 8 + TafTail))
        m == TafWindSearch(tail)
    IN  IF p = 0 THEN <<>>
        ELSE (IF m = None THEN <<>>
              ELSE << <<SubSeq(taf, p, p + 8), m[1]>> >>)
             \o WindowPairs(taf, p + 9)

\* r'(FM\d{6}).{0,40}?(\d{3}|VRB)\d{2}(G\d{2})?KT' at i: the gaps k the
\* lazy .{0,40}? may take ("." matches no newline)
FMGap == 40
FmGaps(s, i) ==
    IF StartsAt(s, <<"F","M">>, i) /\ AllDigits(s, i + 2, i + 7)
    THEN {k \in 0..FMGap :
            /\ i + 7 + k <= Len(s)
            /\ \A j \in (i + 8)..(i + 7 + k) : s[j] # "\n"
            /\ \E gl \in {0, 3} : TafCoreAt(s, i + 8 + k, gl)}
    ELSE {}

\* The second loop: m.group(1) with m.group(2) + m.group(0)[-3:]
RECURSIVE FmPairs(_, _)
FmPairs(taf, from) ==
    LET p == FirstOf({i \in from..Len(taf) : FmGaps(taf, i) # {}})
        k == CHOOSE k \in FmGaps(taf, p) : \A j \in FmGaps(taf, p) : k <= j
        d == p + 8 + k
        gl == IF TafCoreAt(taf, d, 3) THEN 3 ELSE 0
        end == d + 6 + gl
    IN  IF p = 0 THEN <<>>
        ELSE << <<SubSeq(taf, p, p + 7),
                  SubSeq(taf, d, d + 2) \o SubSeq(taf, end - 2, end)>> >>
             \o FmPairs(taf, end + 1)

\* parse_taf_wind
parse_taf_wind(taf) == WindowPairs(taf, 1) \o FmPairs(taf, 1)

----------------------------------------------------------------------------
(* generate_temp_plot: the series of points that is plotted                *)

\* r'TX(M?\d{1,2})' and r'TN(M?\d{1,2})' at i: the length of group 1, 0 for
\* no match
ExtremeLen(s, i, tag) ==
    IF ~StartsAt(s, tag, i) THEN 0
    ELSE LET ml == IF StartsAt(s, <<"M">>, i + 2) THEN 1 ELSE 0
         IN  IF AllDigits(s, i + 2 + ml, i + 3 + ml) THEN ml + 2
             ELSE IF AllDigits(s, i + 2 + ml, i + 2 + ml) THEN ml + 1
             ELSE 0

\* re.findall of that pattern: the text of group 1 of each match, left to
\* right
RECURSIVE ExtremeFindall(_, _, _)
ExtremeFindall(s, tag, from) ==
    LET p == FirstOf({i \in from..Len(s) : ExtremeLen(s, i, tag) > 0})
        l == ExtremeLen(s, p, tag)
    IN  IF p = 0 THEN <<>>
        ELSE << SubSeq(s, p + 2, p + 1 + l) >> \o ExtremeFindall(s, tag, p + 2 + l)

\* float(text) of an optional minus sign and digits; the value is integral
FloatOf(text) ==
    IF text[1] = "-" THEN 0 - IntOf(Tail(text)) ELSE IntOf(text)

\* txs[:8], tns[:8]
TempSlice == 8

\* for i, tx in enumerate(found[:8]): the points (f"TX{i+1}", float(...))
TempPoints(tag, found) ==
    [i \in 1..Len(Take(found, TempSlice)) |->
        <<tag \o StrOf(i), FloatOf(replace_M(found[i]))>>]

\* The TAF block with no [:8] on either list
TafTemps_no_slice(taf_raw) ==
    IF ~Truthy(taf_raw) THEN <<>>
    ELSE LET points(tag) ==
                 LET found == ExtremeFindall(taf_raw[1], tag, 1)
                 IN  [i \in 1..Len(found) |->
                        <<tag \o StrOf(i), FloatOf(replace_M(found[i]))>>]
         IN  points(<<"T","X">>) \o points(<<"T","N">>)

\* The TAF block: the TX points, then the TN points
TafTemps(taf_raw) ==
    IF ~Truthy(taf_raw) THEN <<>>
    ELSE TempPoints(<<"T","X">>, ExtremeFindall(taf_raw[1], <<"T","X">>, 1))
         \o TempPoints(<<"T","N">>, ExtremeFindall(taf_raw[1], <<"T","N">>, 1))

\* The METAR block: the first temperature of the METAR, at "now"
MetarPoint(metar_raw) ==
    IF ~Truthy(metar_raw) THEN <<>>
    ELSE LET s == metar_raw[1]
             pi == FirstOf({i \in 1..Len(s) : TempAt(s, i)})
         IN  IF pi = 0 THEN <<>>
             ELSE << << <<"n","o","w">>,
                        FloatOf(replace_M(
                            SubSeq(s, pi + 1, pi + TempPartLen(s, pi + 1)))) >> >>

\* The fallback series
DummySeries ==
    << << <<"-","3","h">>, 0 >>, << <<"-","2","h">>, 1 >>,
       << <<"-","1","h">>, 2 >>, << <<"n","o","w">>, 3 >> >>

\* generate_temp_plot up to the plotting: the lists times and temps, as one
\* list of (time, temp)
TempSeries(metar_raw, taf_raw) ==
    LET points == MetarPoint(metar_raw) \o TafTemps(taf_raw)
    IN  IF points = <<>> THEN DummySeries ELSE points

\* The TAF texts: lines of up to MaxTafTokens groups, a window with its wind
\* ending at and one character past the 120 searched, nine TX groups, TN
\* groups ahead of a TX group, a TAF of three lines, ""
MaxTafTokens == 3
TafTokenPool ==
    { TAF, <<"0","1","0","6","/","0","2","0","6">>,
      <<"1","8","0","0","5","K","T">>, <<"V","R","B","0","2","G","1","5","K","T">>,
      <<"1","8","0","V","2","4","0","2","0","0","1","0","K","T">>,
      <<"F","M","0","1","1","2","0","0">>,
      <<"T","X","1","2","/","0","1","1","2","Z">>,
      <<"T","N","M","0","3","/","0","1","0","3","Z">>, <<"\n">> }
RECURSIVE TafLines(_)
TafLines(n) ==
    IF n = 0 THEN { <<>> }
    ELSE TafLines(n - 1) \cup
         {(IF l = <<>> THEN t ELSE l \o <<" ">> \o t) :
             l \in TafLines(n - 1), t \in TafTokenPool}
Pad(n) == [i \in 1..n |-> "."]
LongNear ==
    <<"0","1","0","6","/","0","2","0","6">> \o Pad(TafTail - 7)
    \o <<"1","8","0","0","5","K","T">>
LongFar ==
    <<"0","1","0","6","/","0","2","0","6">> \o Pad(TafTail - 6)
    \o <<"1","8","0","0","5","K","T">>
NineTX == join(<<" ">>, [i \in 1..(TempSlice + 1) |-> <<"T","X">> \o StrOf(i)])
MinFirst ==
    <<"T","N","M","5"," ","T","X","7"," ","T","N","3">>
ThreeLines ==
    TAF \o <<" ">> \o UAAA \o <<"\n"," ","F","M","0","1","1","2","0","0"," ",
        "2","0","0","1","0","G","2","0","K","T","\n"," ","T","X","1","2">>
TafInputs ==
    TafLines(MaxTafTokens) \cup {LongNear, LongFar, NineTX, MinFirst, ThreeLines}

----------------------------------------------------------------------------
(* format_weather_human: the report shown to the user.  Each caption is    *)
(* written as "@" and a letter in place of its pictograph and its words,   *)
(* and the degree sign as "*".                                             *)

HeaderCaption == <<"@","A"," ">>
TimeCaption == <<"@","T"," ">>
WindCaption == <<"@","W"," ">>
VisCaption == <<"@","V"," ">>
TempCaption == <<"@","C"," ">>
QnhCaption == <<"@","P"," ">>
CloudCaption == <<"@","L"," ">>
MetarMissing == <<"@","M"," ","-">>
TafCaption == <<"@","F">>
TafMissing == <<"@","F"," ","-">>

\* The lines appended for the fields of p that are set, pressure first
MetarLines_qnh_first(p) ==
    (IF Truthy(p.qnh) THEN << QnhCaption \o p.qnh[1] >> ELSE <<>>)
    \o (IF Truthy(p.time)
        THEN << TimeCaption \o p.time[1] \o <<" ","(","U","T","C",")">> >> ELSE <<>>)
    \o (IF Truthy(p.wind) THEN << WindCaption \o p.wind[1] >> ELSE <<>>)
    \o (IF Truthy(p.visibility) THEN << VisCaption \o p.visibility[1] >> ELSE <<>>)
    \o (IF Truthy(p.temp) THEN << TempCaption \o p.temp[1] \o <<"*","C">> >> ELSE <<>>)
    \o (IF Truthy(p.clouds) THEN << CloudCaption \o p.clouds[1] >> ELSE <<>>)

\* The lines appended for the fields of p that are set: `if p.get(...)`
MetarLines(p) ==
    (IF Truthy(p.time)
     THEN << TimeCaption \o p.time[1] \o <<" ","(","U","T","C",")">> >> ELSE <<>>)
    \o (IF Truthy(p.wind) THEN << WindCaption \o p.wind[1] >> ELSE <<>>)
    \o (IF Truthy(p.visibility) THEN << VisCaption \o p.visibility[1] >> ELSE <<>>)
    \o (IF Truthy(p.temp)
        THEN << TempCaption \o p.temp[1] \o <<"*","C">>
                \o IF Truthy(p.dewpoint)
                   THEN <<" ","(","d","e","w"," ">> \o p.dewpoint[1] \o <<"*","C",")">>
                   ELSE <<>> >>
        ELSE <<>>)
    \o (IF Truthy(p.qnh) THEN << QnhCaption \o p.qnh[1] >> ELSE <<>>)
    \o (IF Truthy(p.clouds) THEN << CloudCaption \o p.clouds[1] >> ELSE <<>>)

\* "\n".join(taf_raw.splitlines()[:2])
TafPreview(taf) == join(NL, Take(splitlines(taf), 2))

\* format_weather_human
format_weather_human(icao, metar_raw, taf_raw) ==
    join(NL,
         << HeaderCaption \o upper(icao) >>
         \o (IF Truthy(metar_raw)
             THEN MetarLines(parse_metar_human(metar_raw[1]))
             ELSE << MetarMissing >>)
         \o (IF Truthy(taf_raw)
             THEN << <<>>, TafCaption, TafPreview(taf_raw[1]) >>
             ELSE << <<>>, TafMissing >>))

\* The reports made: of every METAR text or none, with a TAF of one line,
\* of three lines, of an empty line, of no text or none
FormatTafs == {None, Some(<<>>), Some(MinFirst), Some(ThreeLines), Some(NL)}
FormatMetars == {None, Some(<<" ">>)} \cup {Some(raw) : raw \in RawInputs}

----------------------------------------------------------------------------
(* CACHE_LOCK = asyncio.Lock(): a flag and a FIFO queue of waiting tasks.  *)
(* A task may be suspended at every await: entering `async with`, leaving  *)
(* it, and fetching.  The statements between two awaits run atomically.    *)

\* acquire() that does not look at the flag
LockAcquire_unguarded(h, taken, queued) ==
    /\ locked' = TRUE
    /\ waiters' = waiters
    /\ pc' = [pc EXCEPT ![h] = taken]

\* Lock.acquire(): taken at once when free and nobody waits, else queued
LockAcquire(h, taken, queued) ==
    IF ~locked /\ waiters = <<>>
    THEN /\ locked' = TRUE
         /\ waiters' = waiters
         /\ pc' = [pc EXCEPT ![h] = taken]
    ELSE /\ locked' = locked
         /\ waiters' = Append(waiters, h)
         /\ pc' = [pc EXCEPT ![h] = queued]

\* Lock.release(): clears the flag and wakes the first waiter
LockRelease ==
    /\ locked' = FALSE
    /\ woken' = IF waiters # <<>> THEN woken \cup {Head(waiters)} ELSE woken
    /\ waiters' = waiters

\* A woken waiter resumes in acquire(): leaves the queue and takes the lock
LockResume(h, taken) ==
    /\ h \in woken
    /\ woken' = woken \ {h}
    /\ waiters' = SelectSeq(waiters, LAMBDA w : w # h)
    /\ locked' = TRUE
    /\ pc' = [pc EXCEPT ![h] = taken]

MyKey(h) == KeyOf(op[h].kind, op[h].icao)
NoOp == [kind |-> "none", icao |-> <<>>]

CacheInit ==
    /\ now = 0
    /\ ticks = 0
    /\ CACHE = <<>>
    /\ locked = FALSE
    /\ waiters = <<>>
    /\ woken = {}
    /\ pc = [h \in Handlers |-> "idle"]
    /\ op = [h \in Handlers |-> NoOp]
    /\ cached_res = [h \in Handlers |-> None]
    /\ val = [h \in Handlers |-> None]
    /\ ret = [h \in Handlers |-> None]
    /\ lastSet = <<>>

\* The system clock advances.
Tick ==
    /\ ticks < MaxTicks
    /\ \E d \in Deltas : now' = now + d
    /\ ticks' = ticks + 1
    /\ UNCHANGED <<dirVars, call, CACHE, locked, waiters, woken, pc, op,
                   cached_res, val, ret, lastSet>>

\* A request arrives: get_metar_and_taf(icao) or get_notams(icao) is called
\* and runs up to `await cache_get(key)`.
Start(h) ==
    /\ pc[h] = "idle"
    /\ \E k \in Kinds, c \in Codes : op' = [op EXCEPT ![h] = [kind |-> k, icao |-> c]]
    /\ pc' = [pc EXCEPT ![h] = "get_enter"]
    /\ ret' = [ret EXCEPT ![h] = None]
    /\ UNCHANGED <<dirVars, call, now, ticks, CACHE, locked, waiters, woken,
                   cached_res, val, lastSet>>

\* cache_get: `async with CACHE_LOCK` is entered
GetAcquire(h) ==
    /\ pc[h] = "get_enter"
    /\ LockAcquire(h, "get_cs", "get_wait")
    /\ UNCHANGED <<dirVars, call, now, ticks, CACHE, woken, op, cached_res,
                   val, ret, lastSet>>

GetResume(h) ==
    /\ pc[h] = "get_wait"
    /\ LockResume(h, "get_cs")
    /\ UNCHANGED <<dirVars, call, now, ticks, CACHE, op, cached_res, val, ret, lastSet>>

\* cache_get: the lookup (and eviction) under the lock
GetBody(h) ==
    /\ pc[h] = "get_cs"
    /\ LET r == cache_get_body(CACHE, now, MyKey(h))
       IN  /\ CACHE' = r.cache
           /\ cached_res' = [cached_res EXCEPT ![h] = r.ret]
    /\ pc' = [pc EXCEPT ![h] = "get_exit"]
    /\ UNCHANGED <<dirVars, call, now, ticks, locked, waiters, woken, op, val,
                   ret, lastSet>>

\* What the caller does with cached_res, up to its next await or its return:
\* <<next pc, returned value>>
AfterGet(kind, res) ==
    IF ~Truthy(res) THEN <<"fetch", None>>
    ELSE IF kind = "notam" THEN <<"idle", Some(res[1])>>
    ELSE LET r == ReadMetarTaf(res[1])
         IN  IF r # None THEN <<"idle", r>> ELSE <<"fetch", None>>

\* cache_get: the lock is released, cache_get returns, and the caller
\* returns the hit or goes on to fetch
GetRelease(h) ==
    /\ pc[h] = "get_exit"
    /\ LockRelease
    /\ LET a == AfterGet(op[h].kind, cached_res[h])
       IN  /\ pc' = [pc EXCEPT ![h] = a[1]]
           /\ ret' = [ret EXCEPT ![h] = a[2]]
    /\ cached_res' = [cached_res EXCEPT ![h] = None]
    /\ UNCHANGED <<dirVars, call, now, ticks, CACHE, op, val, lastSet>>

\* The value a handler computes from a successful fetch: <<stored, returned>>
Fetched(kind, icao, body) ==
    IF kind = "metar_taf"
    THEN LET pair == SplitMetarTaf(body)
         IN  <<JoinMetarTaf(pair), Some(pair)>>
    ELSE LET msg == NotamMsg(icao, body)
         IN  <<msg, Some(msg)>>

\* `await fetch_text(url)` / `await fetch_json(url)` answers: outside the lock
FetchOk(h) ==
    /\ pc[h] = "fetch"
    /\ \E body \in (IF op[h].kind = "metar_taf" THEN MetarResponses ELSE NotamResponses) :
         LET f == Fetched(op[h].kind, op[h].icao, body)
         IN  /\ val' = [val EXCEPT ![h] = Some(f[1])]
             /\ ret' = [ret EXCEPT ![h] = f[2]]
    /\ pc' = [pc EXCEPT ![h] = "set_enter"]
    /\ UNCHANGED <<dirVars, call, now, ticks, CACHE, locked, waiters, woken,
                   op, cached_res, lastSet>>

\* The except clause of a failed fetch that stores the joined empty pair
\* for METAR/TAF as well
OnFetchError_stores(kind, icao) ==
    IF kind = "metar_taf"
    THEN [store |-> Some(JoinMetarTaf(<<None, None>>)), ret |-> Some(<<None, None>>)]
    ELSE [store |-> Some(NotamUnavailable(icao)),
          ret |-> Some(NotamUnavailable(icao))]

\* The except clauses: what is passed to cache_set (None: no cache_set) and
\* what is returned.  get_metar_and_taf returns (None, None) without a
\* cache_set; get_notams stores and returns the unavailable marker.
OnFetchError(kind, icao) ==
    IF kind = "metar_taf"
    THEN [store |-> None, ret |-> Some(<<None, None>>)]
    ELSE [store |-> Some(NotamUnavailable(icao)),
          ret |-> Some(NotamUnavailable(icao))]

\* The fetch raises
FetchFails(h) ==
    /\ pc[h] = "fetch"
    /\ LET e == OnFetchError(op[h].kind, op[h].icao)
       IN  /\ ret' = [ret EXCEPT ![h] = e.ret]
           /\ IF e.store = None
              THEN pc' = [pc EXCEPT ![h] = "idle"] /\ UNCHANGED val
              ELSE /\ val' = [val EXCEPT ![h] = e.store]
                   /\ pc' = [pc EXCEPT ![h] = "set_enter"]
    /\ UNCHANGED <<dirVars, call, now, ticks, CACHE, locked, waiters, woken,
                   op, cached_res, lastSet>>

\* cache_set: `async with CACHE_LOCK` is entered
SetAcquire(h) ==
    /\ pc[h] = "set_enter"
    /\ LockAcquire(h, "set_cs", "set_wait")
    /\ UNCHANGED <<dirVars, call, now, ticks, CACHE, woken, op, cached_res,
                   val, ret, lastSet>>

SetResume(h) ==
    /\ pc[h] = "set_wait"
    /\ LockResume(h, "set_cs")
    /\ UNCHANGED <<dirVars, call, now, ticks, CACHE, op, cached_res, val, ret, lastSet>>

\* cache_set through dict.setdefault: an existing entry is not overwritten
CacheWrite_setdefault(cache, t, key, value) ==
    IF key \in DOMAIN cache THEN cache ELSE cache_set_body(cache, t, key, value)

\* cache_set as its callers reach it: CACHE[key] = (time.time(), value)
CacheWrite(cache, t, key, value) == cache_set_body(cache, t, key, value)

\* cache_set: the write under the lock
SetBody(h) ==
    /\ pc[h] = "set_cs"
    /\ CACHE' = CacheWrite(CACHE, now, MyKey(h), val[h][1])
    /\ lastSet' = [k \in (DOMAIN lastSet) \cup {MyKey(h)} |->
                     IF k = MyKey(h) THEN <<now, val[h][1]>> ELSE lastSet[k]]
    /\ pc' = [pc EXCEPT ![h] = "set_exit"]
    /\ UNCHANGED <<dirVars, call, now, ticks, locked, waiters, woken, op,
                   cached_res, val, ret>>

\* cache_set: the lock is released and the handler returns
SetRelease(h) ==
    /\ pc[h] = "set_exit"
    /\ LockRelease
    /\ pc' = [pc EXCEPT ![h] = "idle"]
    /\ val' = [val EXCEPT ![h] = None]
    /\ UNCHANGED <<dirVars, call, now, ticks, CACHE, op, cached_res, ret, lastSet>>

Init == CacheInit /\ DirInit

HandlerStep(h) ==
    \/ Start(h)
    \/ GetAcquire(h) \/ GetResume(h) \/ GetBody(h) \/ GetRelease(h)
    \/ FetchOk(h) \/ FetchFails(h)
    \/ SetAcquire(h) \/ SetResume(h) \/ SetBody(h) \/ SetRelease(h)

\* Requests are served after startup: the directory is loaded and stays.
Next == Tick \/ \E h \in Handlers : HandlerStep(h)

Spec == Init /\ [][Next]_vars

\* The directory on its own: loads and lookups, no request in flight
DirSpec == Init /\ [][DirNext]_vars

\* A decode is about to be made of `raw`
MetarInit ==
    /\ CacheInit
    /\ AIRPORTS = <<>> /\ IATA_MAP = <<>> /\ lastLoad = "none"
    /\ \E raw \in RawInputs : call = [f |-> "decode?", args |-> <<raw>>, out |-> <<>>]

\* parse_metar_human(raw) is called
Decode ==
    /\ call.f = "decode?"
    /\ call' = [f |-> "decode", args |-> call.args,
                out |-> parse_metar_human(call.args[1])]
    /\ UNCHANGED <<cacheVars, dirVars>>

MetarNext == Decode

\* The decoder on its own
MetarSpec == MetarInit /\ [][MetarNext]_vars

\* The bodies the METAR/TAF upstream answers with: those of MetarResponses,
\* an empty body, a TAF alone, a body that holds the cache separator, and
\* two TAF parts with an empty part between them
UpstreamBodies ==
    MetarResponses
    \cup { <<>>, TAF \o <<" ","1","\n","x">>, <<"M">> \o SEP \o <<"X">>,
           TAF \o <<" ","A","\n","\n","\n","\n">> \o TAF \o <<" ","B">> }
    \cup { t \o <<"\n","\n">> \o TAF \o <<" ">> \o UAAA :
             t \in TokenLines(1) \ { <<>> } }

\* A call of one of the text functions is about to be made
TextInit ==
    /\ CacheInit
    /\ AIRPORTS = <<>> /\ IATA_MAP = <<>> /\ lastLoad = "none"
    /\ \/ \E taf \in TafInputs :
            call = [f |-> "taf_wind?", args |-> <<taf>>, out |-> <<>>]
       \/ \E metar_raw \in {None, Some(Example2), Some(Garbage)},
             taf_raw \in {None} \cup {Some(taf) : taf \in TafInputs} :
            call = [f |-> "temps?", args |-> <<metar_raw, taf_raw>>, out |-> <<>>]
       \/ \E icao \in {UAAA, lower(UAAA)}, metar_raw \in FormatMetars,
             taf_raw \in FormatTafs :
            call = [f |-> "format?", args |-> <<icao, metar_raw, taf_raw>>,
                    out |-> <<>>]
       \/ \E body \in UpstreamBodies :
            call = [f |-> "fetch?", args |-> <<UAAA, body>>, out |-> <<>>]

\* parse_taf_wind(taf_raw or "") is called
TafWind ==
    /\ call.f = "taf_wind?"
    /\ call' = [f |-> "taf_wind", args |-> call.args,
                out |-> parse_taf_wind(call.args[1])]
    /\ UNCHANGED <<cacheVars, dirVars>>

\* generate_temp_plot(icao, metar_raw, taf_raw) builds its series
TempPlot ==
    /\ call.f = "temps?"
    /\ call' = [f |-> "temps", args |-> call.args,
                out |-> TempSeries(call.args[1], call.args[2])]
    /\ UNCHANGED <<cacheVars, dirVars>>

\* format_weather_human(code, metar_raw, taf_raw) is called
Format ==
    /\ call.f = "format?"
    /\ call' = [f |-> "format", args |-> call.args,
                out |-> format_weather_human(call.args[1], call.args[2],
                                             call.args[3])]
    /\ UNCHANGED <<cacheVars, dirVars>>

\* get_metar_and_taf(icao) misses, fetches `body`, returns its pair and
\* stores the joined text
Populate ==
    /\ call.f = "fetch?"
    /\ LET f == Fetched("metar_taf", call.args[1], call.args[2])
       IN  call' = [f |-> "stored", args |-> call.args,
                    out |-> [first |-> f[2], stored |-> f[1]]]
    /\ UNCHANGED <<cacheVars, dirVars>>

\* A later get_metar_and_taf(icao) is handed the stored text by cache_get:
\* it returns the pair read from it, or goes on to fetch
ReadBack ==
    /\ call.f = "stored"
    /\ call' = [f |-> "readback", args |-> call.args,
                out |-> [first |-> call.out.first, stored |-> call.out.stored,
                         later |-> AfterGet("metar_taf", Some(call.out.stored))]]
    /\ UNCHANGED <<cacheVars, dirVars>>

TextNext == TafWind \/ TempPlot \/ Format \/ Populate \/ ReadBack

\* The text functions on their own
TextSpec == TextInit /\ [][TextNext]_vars

\* The event loop runs every task that is ready: a handler that can take a
\* lock step eventually takes it.  Nothing obliges a request to arrive, the
\* clock to advance or the upstream to answer.
LockStep(h) ==
    \/ GetAcquire(h) \/ GetResume(h) \/ GetBody(h) \/ GetRelease(h)
    \/ SetAcquire(h) \/ SetResume(h) \/ SetBody(h) \/ SetRelease(h)

\* The lock protocol reads no clock: its progress is checked with the clock
\* standing still.
HandlerNext == \E h \in Handlers : HandlerStep(h)

FairSpec ==
    Init /\ [][HandlerNext]_vars /\ \A h \in Handlers : WF_vars(LockStep(h))

----------------------------------------------------------------------------
(* The cache claims                                                        *)

GetStep(h) == pc[h] = "get_cs" /\ pc'[h] = "get_exit"
SetStep(h) == pc[h] = "set_cs" /\ pc'[h] = "set_exit"
InCS(h) == pc[h] \in {"get_cs", "get_exit", "set_cs", "set_exit"}
Requesting(h) == pc[h] \in {"get_enter", "get_wait", "set_enter", "set_wait"}
OtherKeysKept(k) ==
    /\ DOMAIN CACHE' \cup {k} = DOMAIN CACHE \cup {k}
    /\ \A j \in (DOMAIN CACHE) \ {k} : CACHE'[j] = CACHE[j]

\* C1: a cache_get(k) returns the stored value exactly when the map holds an
\* entry for k with now - insertedAt < CACHE_TTL; otherwise it returns absent
\* and k has no entry afterwards; the entries of the other keys are unchanged.
C1_GetVisibleIffFresh ==
    [][\A h \in Handlers : GetStep(h) =>
        LET k == MyKey(h)
            fresh == k \in DOMAIN CACHE /\ now - CACHE[k][1] < CACHE_TTL
        IN  /\ fresh => cached_res'[h] = Some(CACHE[k][2]) /\ CACHE' = CACHE
            /\ ~fresh => cached_res'[h] = None /\ k \notin DOMAIN CACHE'
            /\ OtherKeysKept(k)]_vars

\* C1 witness: a get found an entry aged exactly CACHE_TTL, returned absent
\* and evicted it, while the other key's entry stayed.
C1_Witness ==
    \E h \in Handlers :
        /\ pc[h] = "get_exit"
        /\ cached_res[h] = None
        /\ MyKey(h) \in DOMAIN lastSet
        /\ now - lastSet[MyKey(h)][1] = CACHE_TTL
        /\ MyKey(h) \notin DOMAIN CACHE
        /\ DOMAIN CACHE # {}

\* C2: a get(k) returns the value of the latest set(k, v) as long as less than
\* CACHE_TTL has passed since that set, and absent once CACHE_TTL or more has
\* passed; every set records the current time, also when it overwrites.
C2_SetThenGet ==
    [][\A h \in Handlers : GetStep(h) =>
        LET k == MyKey(h)
        IN  cached_res'[h] =
              IF k \in DOMAIN lastSet /\ now - lastSet[k][1] < CACHE_TTL
              THEN Some(lastSet[k][2]) ELSE None]_vars

\* C2 witness: a get returns the value of a set made at or after time
\* CACHE_TTL, that is after an earlier window has run out.
C2_Witness ==
    \E h \in Handlers :
        /\ pc[h] = "get_exit"
        /\ MyKey(h) \in DOMAIN lastSet
        /\ cached_res[h] = Some(lastSet[MyKey(h)][2])
        /\ lastSet[MyKey(h)][1] >= CACHE_TTL

\* C3: at most one handler is inside a cache critical section; the lock is
\* held exactly while some handler is inside one (so never during a fetch);
\* a handler that asks for the lock gets it, and a holder releases it.
C3_LockDiscipline ==
    /\ [](Cardinality({h \in Handlers : InCS(h)}) <= 1)
    /\ [](locked <=> \E h \in Handlers : InCS(h))
    /\ \A h \in Handlers : Requesting(h) ~> InCS(h)
    /\ \A h \in Handlers : InCS(h) ~> ~InCS(h)

\* C3 witness: one handler is inside a critical section while the other is
\* queued for the lock.
C3_Witness ==
    \E h, g \in Handlers :
        /\ InCS(h)
        /\ pc[g] \in {"get_wait", "set_wait"}
        /\ waiters = <<g>>

\* The values cache_set can be handed for a key: what a handler computes from
\* an upstream answer, or the unavailable marker.
FetchValues(kind, icao) ==
    IF kind = "metar_taf"
    THEN {Fetched(kind, icao, b)[1] : b \in MetarResponses}
    ELSE {Fetched(kind, icao, b)[1] : b \in NotamResponses}
         \cup {NotamUnavailable(icao)}

\* C4: whatever the interleaving of misses, fetches and sets, an entry of the
\* cache is exactly the (timestamp, value) of the latest cache_set for its key,
\* and its value is one a handler computed from a fetch for that key.
C4_LastSetWins ==
    \A k \in DOMAIN CACHE :
        /\ k \in DOMAIN lastSet
        /\ CACHE[k] = lastSet[k]
        /\ \E kind \in Kinds, c \in Codes :
              k = KeyOf(kind, c) /\ CACHE[k][2] \in FetchValues(kind, c)

\* C4 witness: two handlers missed the same key and each fetched; one has
\* written its value, the other waits to overwrite it with a different one.
C4_Witness ==
    \E h, g \in Handlers :
        /\ h # g
        /\ op[h] = op[g]
        /\ pc[h] = "set_exit"
        /\ pc[g] = "set_wait"
        /\ val[h] # val[g]
        /\ CACHE[MyKey(h)] = <<now, val[h][1]>>

----------------------------------------------------------------------------
(* The directory claims                                                    *)

\* C5: whenever the latest load found the airport file absent or empty,
\* search and nearby return empty sequences for every argument and
\* resolveCode maps nothing: it returns the trimmed, uppercased input.
C5_DegradedAfterEmptyLoad ==
    lastLoad \in {"absent", "empty"} =>
        /\ \A query \in Queries, n \in 0..MaxResults :
              search_airports(AIRPORTS, query, n) = <<>>
        /\ \A lat \in Lats, lon \in Lons, km \in Radii, n \in 0..MaxResults :
              find_nearby(AIRPORTS, lat, lon, km, n) = <<>>
        /\ \A q \in CodeInputs :
              normalize_code_input(q, IATA_MAP) = upper(strip(q))

\* C6 as claimed: with q the trimmed, uppercased input, resolveCode returns
\* the mapped ICAO code when q has length 3 and is a key of the IATA map, and
\* otherwise the input unchanged.
C6_ResolveReturnsInput ==
    call.f = "resolve" =>
        LET input == call.args[1]
            q == upper(strip(input))
        IN  call.out = IF Len(q) = 3 /\ q \in DOMAIN IATA_MAP
                       THEN IATA_MAP[q] ELSE input

\* C6 as amended: with q the trimmed, uppercased input, resolveCode returns
\* the mapped ICAO code when q has length 3 and is a key of the IATA map, and
\* otherwise q; inputs that differ only in letter case give the same result,
\* and a 4-letter code comes back as itself.
C6_ResolveReturnsNormalized ==
    call.f = "resolve" =>
        LET input == call.args[1]
            q == upper(strip(input))
        IN  /\ call.out = IF Len(q) = 3 /\ q \in DOMAIN IATA_MAP
                          THEN IATA_MAP[q] ELSE q
            /\ \A other \in CodeInputs :
                  upper(other) = upper(input) =>
                      normalize_code_input(other, IATA_MAP) = call.out
            /\ input = UAAA => call.out = UAAA

\* C6 witness: the lowercase "ala" is resolved through the loaded ALA -> UAAA
\* mapping.
C6_Witness ==
    /\ call.f = "resolve"
    /\ call.args[1] = <<"a","l","a">>
    /\ call.out = UAAA
    /\ <<"A","L","A">> \in DOMAIN IATA_MAP

\* A record holds the query as a case-insensitive substring of its name,
\* ICAO, IATA or local identifier.
HoldsQuery(query, a) ==
    \E fld \in {a.name, a.icao, a.iata, a.ident} :
        Contains(lower(fld), lower(query))

\* C7: search(query, maxResults) returns exactly the first
\* min(maxResults, number of matches) records, in load order, that hold the
\* query; never more than maxResults; empty for the empty query.  (Stated for
\* queries without outer whitespace, which search_airports strips.)
C7_SearchFirstMatches ==
    call.f = "search" /\ strip(call.args[1]) = call.args[1] =>
        LET query == call.args[1]
            n == call.args[2]
            hits == SelectSeq(AIRPORTS, LAMBDA a : HoldsQuery(query, a))
        IN  /\ Len(call.out) <= n
            /\ call.out = IF query = <<>> THEN <<>> ELSE Take(hits, n)

\* C8: nearby returns the first maxResults of the records within the radius,
\* ordered by non-decreasing distance, equal distances in load order: every
\* returned distance is within the radius, and no record within the radius
\* that is left out precedes a returned one.
Before(d1, i1, d2, i2) == d1 < d2 \/ (d1 = d2 /\ i1 < i2)
C8_NearbySortedWithinRadius ==
    call.f = "nearby" =>
        LET lat == call.args[1]
            lon == call.args[2]
            km == call.args[3]
            n == call.args[4]
            out == call.out
            Dist(i) == haversine_km(lat, lon, AIRPORTS[i].lat, AIRPORTS[i].lon)
            within == {i \in 1..Len(AIRPORTS) : Dist(i) <= km}
            shown == {out[j].idx : j \in 1..Len(out)}
        IN  /\ Len(out) = IF n < Cardinality(within) THEN n ELSE Cardinality(within)
            /\ \A j \in 1..Len(out) :
                  /\ out[j].idx \in within
                  /\ out[j].d = Dist(out[j].idx)
                  /\ out[j].a = AIRPORTS[out[j].idx]
            /\ \A j, k \in 1..Len(out) :
                  j < k => Before(out[j].d, out[j].idx, out[k].d, out[k].idx)
            /\ \A i \in within \ shown : \A j \in 1..Len(out) :
                  ~Before(Dist(i), i, out[j].d, out[j].idx)

\* C8 witness: two different records at the same distance are both within
\* the radius; the result, cut to one, is the one loaded first.
C8_Witness ==
    /\ call.f = "nearby"
    /\ call.args[4] = 1
    /\ Len(call.out) = 1
    /\ Len(AIRPORTS) = 2
    /\ AIRPORTS[1] # AIRPORTS[2]
    /\ call.out[1].idx = 1
    /\ call.out[1].d > 0
    /\ haversine_km(call.args[1], call.args[2], AIRPORTS[2].lat, AIRPORTS[2].lon)
          = call.out[1].d

----------------------------------------------------------------------------
(* The decoder claims                                                      *)

\* The line the decoder works on: the first line, stripped; "" has none
FirstLine(raw) ==
    IF splitlines(raw) = <<>> THEN <<>> ELSE strip(splitlines(raw)[1])

\* C9: decode returns a record for every input without raising, and each of
\* time, wind, visibility, temperature, dewpoint, altimeter and clouds is
\* absent exactly when its own pattern matches nowhere in the first line,
\* whatever the other fields do.
C9_DecodeTotalFieldwise ==
    call.f = "decode" =>
        LET first == FirstLine(call.args[1])
            out == call.out
        IN  /\ ~out.raised
            /\ out.time = None <=> ~\E i \in 1..Len(first) : TimeAt(first, i)
            /\ out.wind = None <=> ~\E i \in 1..Len(first) : WindAt(first, i)
            /\ out.visibility = None <=> ~\E i \in 1..(Len(first) + 1) : VisAt(first \o <<" ">>, i)
            /\ out.temp = None <=> ~\E i \in 1..Len(first) : TempAt(first, i)
            /\ out.dewpoint = None <=> ~\E i \in 1..Len(first) : TempAt(first, i)
            /\ out.qnh = None <=> ~\E i \in 1..Len(first) : QnhAt(first, i)
            /\ out.clouds = None <=> ~\E i \in 1..Len(first) : CloudAt(first, i)

\* C9 witness: of one line the wind and the clouds are decoded while time,
\* visibility, temperature and altimeter are absent.
C9_Witness ==
    /\ call.f = "decode"
    /\ call.out.wind # None
    /\ call.out.clouds # None
    /\ call.out.time = None
    /\ call.out.visibility = None
    /\ call.out.temp = None
    /\ call.out.qnh = None

\* The groups of a coverage code and three digits in a line, left to right;
\* a group counts where a space precedes it, as in every line that begins
\* with the station
RECURSIVE CloudGroups(_, _)
CloudGroups(s, from) ==
    IF from > Len(s) THEN <<>>
    ELSE IF CloudAt(s, from)
         THEN << SubSeq(s, from + 1, from + 6) >> \o CloudGroups(s, from + 7)
         ELSE CloudGroups(s, from + 1)

\* C10: the cloud layers decoded are every group of a coverage code (FEW,
\* SCT, BKN, OVC) and a 3-digit height code, left to right, each with its
\* coverage and its height code: FEW020 decodes to the one layer FEW020.
C10_CloudLayersWithHeight ==
    call.f = "decode" =>
        LET layers == CloudGroups(FirstLine(call.args[1]), 1)
        IN  call.out.clouds =
              IF layers = <<>> THEN None ELSE Some(join(<<","," ">>, layers))

\* The decimal text of an integer
SignedText(n) == IF n < 0 THEN <<"-">> \o StrOf(0 - n) ELSE StrOf(n)

\* The integer a temperature part denotes: M and digits is negative
TempValue(part) ==
    IF part[1] = "M" THEN 0 - IntOf(Tail(part)) ELSE IntOf(part)

\* C11: of the temperature/dewpoint token the decode yields the two signed
\* integers it denotes, a leading M meaning negative: 22/14 gives 22 and
\* 14, M05/M10 gives -5 and -10.
C11_TempSignedIntegers ==
    call.f = "decode" =>
        LET first == FirstLine(call.args[1])
            pi == FirstOf({i \in 1..Len(first) : TempAt(first, i)})
            tl == TempPartLen(first, pi + 1)
            dl == TempPartLen(first, pi + 2 + tl)
        IN  pi # 0 =>
              /\ call.out.temp =
                    Some(SignedText(TempValue(SubSeq(first, pi + 1, pi + tl))))
              /\ call.out.dewpoint =
                    Some(SignedText(TempValue(
                        SubSeq(first, pi + 2 + tl, pi + 1 + tl + dl))))

\* The groups of a line after its first that report a visibility: four
\* digits, 10000, or one or two digits and SM
IsVisToken(t) ==
    \/ Len(t) = 4 /\ AllDigits(t, 1, 4)
    \/ t = <<"1","0","0","0","0">>
    \/ /\ Len(t) \in {3, 4}
       /\ AllDigits(t, 1, Len(t) - 2)
       /\ SubSeq(t, Len(t) - 1, Len(t)) = <<"S","M">>
VisTokens(first) ==
    LET groups == split(first, <<" ">>)
    IN  SelectSeq(IF groups = <<>> THEN <<>> ELSE Tail(groups), IsVisToken)

\* C12: the visibility decoded is "10+ km" when the visibility token is
\* 9999 or 10000, the token verbatim for any other 4-digit token and for a
\* token of one or two digits and SM, and absent when the line has no such
\* token.
C12_VisibilityNormalized ==
    call.f = "decode" =>
        LET tokens == VisTokens(FirstLine(call.args[1]))
        IN  call.out.visibility =
              IF tokens = <<>> THEN None
              ELSE IF tokens[1] \in {<<"9","9","9","9">>, <<"1","0","0","0","0">>}
                   THEN Some(<<"1","0","+"," ","k","m">>)
                   ELSE Some(tokens[1])

\* A validity-window token of the text at p: DDHH/DDHH, or FM and six digits
IsWindowToken(taf, w, p) ==
    \/ WindowAt(taf, p) /\ w = SubSeq(taf, p, p + 8)
    \/ /\ StartsAt(taf, <<"F","M">>, p) /\ AllDigits(taf, p + 2, p + 7)
       /\ w = SubSeq(taf, p, p + 7)

\* The DDHH/DDHH windows of the text with a wind token in the 120 characters
\* after them
WindowsWithWind(taf) ==
    {p \in 1..Len(taf) :
        /\ WindowAt(taf, p)
        /\ TafWindSearch(Slice(taf, p + 9, Least(Len(taf), p + 8 + TafTail))) # None}

\* C13: every pair returned for a TAF is a validity-window token of the
\* text with a wind token that occurs verbatim in the text within the 120
\* characters right after that window, and there is one pair for each
\* DDHH/DDHH window that has such a wind token, none for a window without.
C13_WindPairsVerbatim ==
    call.f = "taf_wind" =>
        LET taf == call.args[1]
            out == call.out
        IN  /\ \A n \in 1..Len(out) :
                 \E p \in 1..Len(taf) :
                    /\ IsWindowToken(taf, out[n][1], p)
                    /\ \E q \in (p + Len(out[n][1]))..
                                 (p + Len(out[n][1]) + TafTail - Len(out[n][2])) :
                          StartsAt(taf, out[n][2], q)
            /\ Cardinality({n \in 1..Len(out) : Len(out[n][1]) = 9})
                 = Cardinality(WindowsWithWind(taf))

\* The TX and TN tokens of a text in their order of occurrence, as (kind,
\* value)
ExtremesInOrder(s) ==
    LET at == {i \in 1..Len(s) :
                  ExtremeLen(s, i, <<"T","X">>) > 0 \/ ExtremeLen(s, i, <<"T","N">>) > 0}
        kind(i) == SubSeq(s, i, i + 1)
        nth[n \in 1..Cardinality(at)] ==
            CHOOSE i \in at : Cardinality({j \in at : j < i}) = n - 1
    IN  [n \in 1..Cardinality(at) |->
            <<kind(nth[n]),
              TempValue(SubSeq(s, nth[n] + 2, nth[n] + 1 + ExtremeLen(s, nth[n], kind(nth[n]))))>>]

\* The points of a series that come from the TAF, as (kind, value)
TafPart(series) ==
    LET pts == SelectSeq(series, LAMBDA pt : pt[1][1] = "T")
    IN  [n \in 1..Len(pts) |-> <<SubSeq(pts[n][1], 1, 2), pts[n][2]>>]

\* C14 as stated: the temperature extremes are all TX and TN tokens of the
\* text in their order of occurrence in the text, each TX tagged max and
\* each TN tagged min, a leading M giving a negative value.
C14_ExtremesInTextOrder ==
    (call.f = "temps" /\ Truthy(call.args[2])) =>
        TafPart(call.out) = ExtremesInOrder(call.args[2][1])

\* The tokens of one kind, in their order of occurrence, the first 8
KindInOrder(s, tag) ==
    Take(SelectSeq(ExtremesInOrder(s), LAMBDA e : e[1] = tag), TempSlice)

\* C14 amended: the temperature extremes are the first 8 TX tokens of the
\* text in their order of occurrence, tagged max and numbered from 1,
\* followed by the first 8 TN tokens in their order of occurrence, tagged
\* min and numbered from 1, a leading M giving a negative value.
C14_ExtremesByKind ==
    (call.f = "temps" /\ Truthy(call.args[2])) =>
        LET s == call.args[2][1]
            tx == KindInOrder(s, <<"T","X">>)
            tn == KindInOrder(s, <<"T","N">>)
            pts == SelectSeq(call.out, LAMBDA pt : pt[1][1] = "T")
        IN  /\ TafPart(call.out) = tx \o tn
            /\ \A n \in 1..Len(pts) :
                  pts[n][1] = SubSeq(pts[n][1], 1, 2)
                              \o StrOf(IF n <= Len(tx) THEN n ELSE n - Len(tx))

\* C14 witness: of a text with a TN token ahead of a TX token the TX point
\* came first, followed by the two TN points, one of them negative.
C14_Witness ==
    /\ call.f = "temps"
    /\ call.args[2] = Some(MinFirst)
    /\ TafPart(call.out) = << <<<<"T","X">>, 7>>, <<<<"T","N">>, 0 - 5>>,
                               <<<<"T","N">>, 3>> >>

\* The captions of the six fields in the order of the report, and the
\* fields of a decoded METAR in that order
FieldCaptions ==
    <<TimeCaption, WindCaption, VisCaption, TempCaption, QnhCaption, CloudCaption>>
FieldValues(p) == <<p.time, p.wind, p.visibility, p.temp, p.qnh, p.clouds>>

\* C15: the report is the airport header, then one line for each present
\* field and none for an absent one, in the order time, wind, visibility,
\* temperature, pressure, clouds; the METAR "not found" marker stands in
\* their place exactly when there is no METAR; and the report ends with
\* the first two lines of the raw TAF verbatim, or with the TAF "not
\* found" marker when there is no TAF.
C15_ReportLines ==
    call.f = "format" =>
        LET metar_raw == call.args[2]
            taf_raw == call.args[3]
            lines == split(call.out, NL)
            blank == CHOOSE k \in 2..Len(lines) :
                        lines[k] = <<>> /\ \A j \in 2..(k - 1) : lines[j] # <<>>
            metarPart == SubSeq(lines, 2, blank - 1)
            tafPart == SubSeq(lines, blank + 1, Len(lines))
            values == FieldValues(parse_metar_human(OrEmpty(metar_raw)))
            present == SelectSeq(<<1, 2, 3, 4, 5, 6>>, LAMBDA f : values[f] # None)
        IN  /\ lines[1] = HeaderCaption \o upper(call.args[1])
            /\ \E k \in 2..Len(lines) : lines[k] = <<>>
            /\ Truthy(metar_raw) =>
                  /\ Len(metarPart) = Len(present)
                  /\ \A n \in 1..Len(present) :
                        StartsAt(metarPart[n],
                                 FieldCaptions[present[n]] \o values[present[n]][1], 1)
            /\ (\E n \in 1..Len(lines) : lines[n] = MetarMissing) <=> ~Truthy(metar_raw)
            /\ ~Truthy(metar_raw) => metarPart = << MetarMissing >>
            /\ tafPart = IF Truthy(taf_raw)
                         THEN << TafCaption >> \o Take(splitlines(taf_raw[1]), 2)
                         ELSE << TafMissing >>

\* C15 witness: a report of a METAR with its time, wind and pressure but no
\* visibility and no clouds, and of a TAF of three lines of which the
\* third is left out.
C15_Witness ==
    /\ call.f = "format"
    /\ call.args[2] = Some(Example2)
    /\ call.args[3] = Some(ThreeLines)
    /\ Len(split(call.out, NL)) = 9
    /\ ~Contains(call.out, VisCaption)
    /\ ~Contains(call.out, <<"T","X","1","2">>)

\* C16: the cache is written for a key only with a value obtained from a
\* fetch or with the unavailable marker.  When the METAR/TAF fetch fails the
\* call returns (absent, absent) and leaves the cache as it was, and a
\* request that finds nothing in the cache goes on to fetch; when the NOTAM
\* fetch fails the call goes on to store the unavailable marker and nothing
\* else, and a request that finds the marker in the cache returns it
\* without a fetch.
C16_FailureHandling ==
    [][\A h \in Handlers :
          /\ FetchFails(h) =>
                IF op[h].kind = "metar_taf"
                THEN /\ CACHE' = CACHE
                     /\ pc'[h] = "idle"
                     /\ ret'[h] = Some(<<None, None>>)
                ELSE /\ CACHE' = CACHE
                     /\ pc'[h] = "set_enter"
                     /\ val'[h] = Some(NotamUnavailable(op[h].icao))
                     /\ ret'[h] = Some(NotamUnavailable(op[h].icao))
          /\ SetStep(h) =>
                /\ val[h][1] \in FetchValues(op[h].kind, op[h].icao)
                /\ CACHE'[MyKey(h)] = <<now, val[h][1]>>
          /\ \A k \in DOMAIN CACHE' :
                (k \notin DOMAIN CACHE \/ CACHE'[k] # CACHE[k]) =>
                    \E g \in Handlers : SetStep(g) /\ MyKey(g) = k
          /\ (pc[h] = "get_exit" /\ pc'[h] # "get_exit") =>
                IF ~Truthy(cached_res[h]) THEN pc'[h] = "fetch"
                ELSE op[h].kind = "notam" =>
                        pc'[h] = "idle" /\ ret'[h] = cached_res[h]
    ]_vars

\* C16 witness: one request has come back with (absent, absent) from a
\* failed METAR/TAF fetch and nothing is cached for its key, while another
\* has just read from the cache the NOTAM unavailable marker that a failed
\* fetch stored at an earlier time.
C16_Witness ==
    /\ pc["h1"] = "idle"
    /\ op["h1"].kind = "metar_taf"
    /\ ret["h1"] = Some(<<None, None>>)
    /\ KeyOf("metar_taf", op["h1"].icao) \notin DOMAIN CACHE
    /\ pc["h2"] = "get_exit"
    /\ op["h2"].kind = "notam"
    /\ cached_res["h2"] = Some(NotamUnavailable(op["h2"].icao))
    /\ CACHE[KeyOf("notam", op["h2"].icao)][1] < now

\* C17: once a call has fetched a body and stored it, a later call that
\* finds the entry makes no fetch and returns exactly the pair the first
\* call returned, an absent part staying absent: joining with the separator
\* and splitting again loses nothing.
C17_RoundTrip ==
    call.f = "readback" => call.out.later = <<"idle", call.out.first>>

====
